---------------------------- MODULE Spec2Model ----------------------------
(***************************************************************************)
(* Maker-checker workflow orchestration of ProcessGenAgent: the run         *)
(* registry (workflow-store.ts), the submission, progress-stream and stop   *)
(* routes, the LangGraph maker/checker graph and the callback loop of       *)
(* runWorkflowWithCallbacks that turns graph updates into stream events.    *)
(***************************************************************************)
EXTENDS Integers, Sequences, FiniteSets, TLC

(* ------------------------------ bounds -------------------------------- *)

\* largest maxIterations a submission may ask for in the model
MaxIter == 2
\* number of stop commands issued against the run
MaxStops == 1
MaxFiles == 2
MaxOpens == 2

(* ----------------------- input value sets ----------------------------- *)

\* confidence values and thresholds, in tenths of the range [0,1]
ConfLevels == {0, 5, 10}

NullId == "null"
NullSig == "null"
NoFile == [id |-> 0, url |-> ""]
NullText == [isNull |-> TRUE, lines |-> <<>>]

Line(n, s) == [n |-> n, s |-> s]
Text(ls) == [isNull |-> FALSE, lines |-> ls]

\* JavaScript truthiness of a string | null: neither null nor ""
Truthy(t) == ~t.isNull /\ t.lines # <<Line(0, "")>>

\* verdicts returned by the review client (already normalised); against
\* the thresholds of ConfLevels the passing one lies above, at and below
Verdicts ==
  { [passed |-> TRUE, confidence |-> 5, feedback |-> "ok", issues |-> <<>>],
    [passed |-> FALSE, confidence |-> 10, feedback |-> "fix",
     issues |-> <<"i1", "i2">>],
    [passed |-> FALSE, confidence |-> 0, feedback |-> "", issues |-> <<>>] }

\* results returned by generatePresentation
MakerResults ==
  { [taskId |-> "t1", outputUrl |-> "u1", outputSignature |-> "s1"],
    [taskId |-> "t2", outputUrl |-> "u2", outputSignature |-> "s2"],
    [taskId |-> "t1", outputUrl |-> "u2", outputSignature |-> NullSig] }

\* submissions posted to the start route
Configs ==
  [maxIterations : 1..MaxIter, confidenceThreshold : ConfLevels,
   autoStopOnPass : BOOLEAN]

Requests ==
  [fileIds : {<<>>, <<"f1">>}, makerPrompt : {" ", "make"},
   checkerPrompt : {"", "check"}, guidelines : {"g"}, config : Configs]

NoRequest ==
  [fileIds |-> <<>>, makerPrompt |-> "", checkerPrompt |-> "",
   guidelines |-> "",
   config |-> [maxIterations |-> 1, confidenceThreshold |-> 0,
               autoStopOnPass |-> FALSE]]

\* String.prototype.trim on the prompts of the model
Trim(s) == IF s \in {"", " "} THEN "" ELSE s

(* ------------------------------ state --------------------------------- *)

VARIABLES
  store,           \* the registry entry of the run (workflow:<runId>)
  useRedis,        \* getRedisClient() found credentials
  startResp,       \* last answer of the start route
  pc,              \* position of the progress-stream handler
  request,         \* workflow.request captured by the stream handler
  state,           \* the LangGraph channel state of the run
  currentState,    \* currentState of runWorkflowWithCallbacks
  lastIteration,   \* lastIteration of runWorkflowWithCallbacks
  makerReq,        \* request of the latest generatePresentation call
  events,          \* typed events enqueued on the stream, in order
  closed,          \* controller.close() has run
  returned,        \* state returned by runWorkflowWithCallbacks
  pendingStatus,   \* status the stream handler is writing
  engLocal,        \* record read by the handler's updateWorkflowStatus
  shouldStopValue, \* shouldStopValue of runRealWorkflow
  spc,             \* position of the stop route handler
  stopLocal,       \* record read by the stop route's store call
  stopResp,        \* last answer of the stop route
  stops,           \* stop commands issued so far
  gpc,             \* position of a generatePresentation call
  genRequest,      \* genRequest of generatePresentation
  phase,           \* which task the call is on: main, pptx or pdf export
  notFoundRetries, \* notFoundRetries of waitForTaskWithNewOutput
  lastDelay,       \* the delay() taken before the next lookup
  task,            \* task of the polling loop: the latest lookup result
  caught,          \* error caught in the latest round of the loop
  completedTask,   \* completedTask of generatePresentation
  pptxOutput,      \* pptxOutput of generatePresentation
  pdfOutput,       \* pdfOutput of generatePresentation
  thrown,          \* the error generatePresentation threw
  genResult,       \* the ManusGenerateResult it returned
  taskRequests,    \* the createTask requests the call has issued
  executions,      \* calls of executeWorkflow made for the run so far
  rpc,             \* position of a review of the checker node
  reviewFiles,     \* state.inputFiles and state.sampleFiles of the review
  attachments,     \* the files buildAttachments returned an entry for
  parsed,          \* the object JSON.parse made of the review's answer
  verdict          \* the CheckerReviewResult the review client returned

genVars ==
  <<gpc, genRequest, phase, notFoundRetries, lastDelay, task, caught,
    completedTask, pptxOutput, pdfOutput, thrown, genResult, taskRequests>>

reviewVars == <<rpc, reviewFiles, attachments, parsed, verdict>>

vars ==
  <<store, useRedis, startResp, pc, request, state, currentState,
    lastIteration, makerReq, events, closed, returned, pendingStatus,
    engLocal, shouldStopValue, spc, stopLocal, stopResp, stops, genVars,
    executions, reviewVars>>

storeVars == <<store, useRedis>>
engineVars ==
  <<pc, request, state, currentState, lastIteration, makerReq, events,
    closed, returned, pendingStatus, engLocal, shouldStopValue>>
stopVars == <<spc, stopLocal, stopResp, stops>>

NoEntry ==
  [present |-> FALSE, status |-> "running", shouldStop |-> FALSE,
   request |-> NoRequest]

NoPrompt ==
  [kind |-> "none", base |-> "", guidelines |-> "", feedback |-> NullText]

NoMakerReq ==
  [iteration |-> 0, prompt |-> NoPrompt, files |-> 0, taskId |-> NullId,
   previousOutputSignature |-> NullSig]

\* createInitialState
createInitialState(req) ==
  [maxIterations |-> req.config.maxIterations,
   confidenceThreshold |-> req.config.confidenceThreshold,
   autoStopOnPass |-> req.config.autoStopOnPass,
   makerPrompt |-> req.makerPrompt,
   guidelines |-> req.guidelines,
   currentIteration |-> 0,
   currentOutput |-> NoFile,
   feedback |-> NullText,
   manusTaskId |-> NullId,
   lastOutputSignature |-> NullSig,
   iterationHistory |-> <<>>,
   finalOutput |-> NoFile,
   success |-> FALSE,
   shouldStop |-> FALSE]

(* ----------------- generation client: values --------------------------- *)

\* files a task may list: url (a number, in sort order), kind (the file
\* name ends in .pptx / .pdf or the mime type says so), path (what the url
\* contains: /sandbox/ or /sessionFile/, /uploads/, neither) and file name
GenFiles ==
  { [url |-> 1, kind |-> "pptx", path |-> "sandbox", name |-> "out.pptx"],
    [url |-> 2, kind |-> "pdf", path |-> "sandbox", name |-> "out.pdf"],
    [url |-> 3, kind |-> "pptx", path |-> "uploads", name |-> "in.pptx"],
    [url |-> 4, kind |-> "pptx", path |-> "other", name |-> "deck.pptx"] }

\* the names of the files attached to the call
InputFilenames(req) == IF req.files > 0 THEN {"in.pptx"} ELSE {}

\* task.output[].content[] as returned by the lookup: up to two files, in
\* listing order
Listings ==
  {<<>>} \cup {<<f>> : f \in GenFiles}
    \cup {p \in GenFiles \X GenFiles : p[1] # p[2]}

\* task.outputs, the legacy array: empty, or the generated presentation
LegacyListings ==
  {<<>>} \cup {<<f>> : f \in {g \in GenFiles : g.url = 1}}

NoOutput == [url |-> 0, kind |-> "none"]

\* ManusTaskResponse after normalizeTaskResponse; the files of a task are
\* read only once it is completed and has an id
TaskStates ==
  {[id |-> "t1", status |-> st, files |-> <<>>, outputs |-> <<>>] :
     st \in {"running", "failed"}}
    \cup {[id |-> NullId, status |-> "completed", files |-> <<>>,
           outputs |-> <<>>]}
    \cup [id : {"t1"}, status : {"completed"}, files : Listings,
          outputs : LegacyListings]

NoTask == [id |-> NullId, status |-> "none", files |-> <<>>, outputs |-> <<>>]

\* urls.sort(): the urls in ascending order, repeats kept
RECURSIVE SortedUrls(_)
SortedUrls(urls) ==
  IF urls = <<>> THEN <<>>
  ELSE LET u == Head(urls)
           rest == SortedUrls(Tail(urls))
       IN SelectSeq(rest, LAMBDA v : v <= u) \o <<u>>
            \o SelectSeq(rest, LAMBDA v : v > u)

\* buildOutputSignature: the urls of task.output and of task.outputs,
\* sorted and joined (a url pushed twice is joined twice), or null when
\* there is none
NoSignature == <<>>
buildOutputSignature(t) ==
  SortedUrls([i \in DOMAIN t.files |-> t.files[i].url]
             \o [i \in DOMAIN t.outputs |-> t.outputs[i].url])

Signatures == {buildOutputSignature(t) : t \in TaskStates}

\* ManusGenerateRequest, as far as generatePresentation branches on it
GenRequests ==
  [files : {0, 1}, taskId : {NullId, "t1"},
   previousOutputSignature : {NoSignature, <<1>>, <<1, 2>>}]

\* errors of apiRequest: an HTTP status with the response text in the
\* message, or the abort of the request timer
HttpError(status, textHas404) ==
  [code |-> "MANUS_API_ERROR", status |-> status,
   messageHas404 |-> (status = 404 \/ textHas404)]

TimeoutError ==
  [code |-> "MANUS_TIMEOUT", status |-> 0, messageHas404 |-> FALSE]

RequestErrors ==
  {HttpError(st, b) : st \in {404, 429, 500}, b \in BOOLEAN}
    \cup {TimeoutError}

\* errors generatePresentation and the polling loop construct themselves
InvalidResponse ==
  [code |-> "MANUS_INVALID_RESPONSE", status |-> 0, messageHas404 |-> FALSE]

TaskFailed ==
  [code |-> "MANUS_TASK_FAILED", status |-> 0, messageHas404 |-> FALSE]

TaskNotFound ==
  [code |-> "MANUS_API_ERROR", status |-> 0, messageHas404 |-> FALSE]

NoError == [code |-> "none", status |-> 0, messageHas404 |-> FALSE]

NoResult ==
  [taskId |-> NullId, outputUrl |-> 0, pdfUrl |-> 0,
   outputSignature |-> NoSignature]

NoGenRequest ==
  [files |-> 0, taskId |-> NullId, previousOutputSignature |-> NoSignature]

\* no generation call is being followed
GenIdle ==
  /\ gpc = "idle"
  /\ genRequest = NoGenRequest
  /\ phase = "main"
  /\ notFoundRetries = 0
  /\ lastDelay = "none"
  /\ task = NoTask
  /\ caught = NoError
  /\ completedTask = NoTask
  /\ pptxOutput = NoOutput
  /\ pdfOutput = NoOutput
  /\ thrown = NoError
  /\ genResult = NoResult
  /\ taskRequests = <<>>

(* ------------------- review of the checker node: values --------------- *)

\* UploadedFile records as far as buildAttachments reads them; "" is a
\* missing (falsy) field
ReviewFileSet ==
  { [id |-> "a", url |-> "ua", name |-> "n1"],
    [id |-> "a", url |-> "ub", name |-> "n2"],
    [id |-> "", url |-> "ua", name |-> "n3"],
    [id |-> "", url |-> "", name |-> "a"],
    [id |-> "", url |-> "", name |-> ""] }

\* state.inputFiles and state.sampleFiles
ReviewInputs ==
  [inputFiles : UNION {[1..k -> ReviewFileSet] : k \in 0..MaxFiles},
   sampleFiles : UNION {[1..k -> ReviewFileSet \ {[id |-> "", url |-> "",
                                                  name |-> ""]}] :
                          k \in 0..1}]

NoReviewFiles == [inputFiles |-> <<>>, sampleFiles |-> <<>>]

\* values JSON.parse produces, tagged with their typeof (an array is
\* tagged array); JMissing is a property the object does not have
JBool(b) == [t |-> "boolean", v |-> b]
JNum(n) == [t |-> "number", v |-> n]
JStr(str) == [t |-> "string", v |-> str]
JArr(a) == [t |-> "array", v |-> a]
JMissing == [t |-> "undefined", v |-> 0]

\* the objects the review's answer may parse to; numbers are in tenths,
\* like the confidence values of the model
ParsedObjects ==
  [passed : {JMissing, JBool(TRUE), JBool(FALSE), JStr("true")},
   confidence : {JMissing, JStr("0.9"), JNum(0 - 5), JNum(5), JNum(15)},
   feedback : {JMissing, JStr("fix"), JNum(1)},
   issues : {JMissing, JStr("i1"), JArr(<<>>),
             JArr(<<JStr("i1"), JNum(7), JStr("i2")>>),
             JArr(<<JStr("i2"), JStr("i1")>>)}]

NoParsed ==
  [passed |-> JMissing, confidence |-> JMissing, feedback |-> JMissing,
   issues |-> JMissing]

NoVerdict ==
  [passed |-> FALSE, confidence |-> 0, feedback |-> "", issues |-> <<>>]

\* no review is being followed
ReviewIdle ==
  /\ rpc = "idle"
  /\ reviewFiles = NoReviewFiles
  /\ attachments = <<>>
  /\ parsed = NoParsed
  /\ verdict = NoVerdict

\* no run has been submitted: registry, stream handler and stop route
RunIdle ==
  /\ executions = 0
  /\ store = NoEntry
  /\ startResp = "none"
  /\ pc = "none"
  /\ request = NoRequest
  /\ state = createInitialState(NoRequest)
  /\ currentState = createInitialState(NoRequest)
  /\ lastIteration = 0
  /\ makerReq = NoMakerReq
  /\ events = <<>>
  /\ closed = FALSE
  /\ returned = FALSE
  /\ pendingStatus = "running"
  /\ engLocal = NoEntry
  /\ shouldStopValue = FALSE
  /\ spc = "idle"
  /\ stopLocal = NoEntry
  /\ stopResp = "none"
  /\ stops = 0

Init ==
  /\ useRedis \in BOOLEAN
  /\ RunIdle
  /\ GenIdle
  /\ ReviewIdle

(* --------------------------- run registry ----------------------------- *)

\* getWorkflow: the stored record, or null
getWorkflow == store

\* setWorkflow after a field assignment on a record read earlier. Redis
\* hands out parsed copies, so the copy read earlier is written back whole.
\* The in-memory Map hands out the stored object itself: the assignment
\* lands on the live entry whenever it runs, and the read and the write
\* are taken as one step (ReadThenWrite).
WriteField(local, field, value) == [local EXCEPT ![field] = value]

\* the record a reader holds after getWorkflow when it goes on to assign
\* to it: a copy under Redis; with the Map nothing is held apart
HeldCopy(local) == IF useRedis THEN getWorkflow ELSE local

(* --------------------------- start route ------------------------------ *)

\* variant: the review prompt is not validated
Submit_noCheckerPromptCheck(req) ==
  /\ startResp # "started"
  /\ IF Len(req.fileIds) = 0 \/ Trim(req.makerPrompt) = ""
       THEN /\ startResp' = "400"
            /\ UNCHANGED store
       ELSE /\ store' = [present |-> TRUE, status |-> "running",
                         shouldStop |-> FALSE, request |-> req]
            /\ startResp' = "started"
  /\ UNCHANGED <<genVars, reviewVars, executions>>
  /\ UNCHANGED <<useRedis, engineVars, stopVars>>

\* POST /api/workflow/start
Submit(req) ==
  /\ startResp # "started"
  /\ IF Len(req.fileIds) = 0 \/ Trim(req.makerPrompt) = ""
        \/ Trim(req.checkerPrompt) = ""
       THEN /\ startResp' = "400"
            /\ UNCHANGED store
       ELSE /\ store' = [present |-> TRUE, status |-> "running",
                         shouldStop |-> FALSE, request |-> req]
            /\ startResp' = "started"
  /\ UNCHANGED <<genVars, reviewVars, executions>>
  /\ UNCHANGED <<useRedis, engineVars, stopVars>>

(* ------------------------- graph state merge -------------------------- *)

\* variant: iterationHistory keeps the last value written, like the others
AnnotationReduce_overwrite(st, upd) ==
  [k \in DOMAIN st |-> IF k \in DOMAIN upd THEN upd[k] ELSE st[k]]

\* WorkflowStateAnnotation: every channel keeps the last value written,
\* except iterationHistory whose reducer appends the update
AnnotationReduce(st, upd) ==
  [k \in DOMAIN st |->
     IF k \in DOMAIN upd
       THEN IF k = "iterationHistory" THEN st[k] \o upd[k] ELSE upd[k]
       ELSE st[k]]

\* extractStateFromEvent: { ...currentState, ...updates }
extractStateFromEvent(cs, upd) ==
  [k \in DOMAIN cs |-> IF k \in DOMAIN upd THEN upd[k] ELSE cs[k]]

(* ----------------------------- maker node ----------------------------- *)

\* buildMakerPrompt
buildMakerPrompt(basePrompt, guidelines) ==
  [kind |-> "full", base |-> basePrompt, guidelines |-> Trim(guidelines),
   feedback |-> NullText]

\* buildFeedbackOnlyPrompt
buildFeedbackOnlyPrompt(feedback) ==
  [kind |-> "feedback", base |-> "", guidelines |-> "", feedback |-> feedback]

\* variant: the full generation prompt is sent on every iteration
MakerRequest_alwaysFull(st, nFiles) ==
  [iteration |-> st.currentIteration + 1,
   prompt |-> buildMakerPrompt(st.makerPrompt, st.guidelines),
   files |-> IF st.currentIteration = 0 THEN nFiles ELSE 0,
   taskId |-> st.manusTaskId,
   previousOutputSignature |-> st.lastOutputSignature]

\* variant: the files are attached on every iteration
MakerRequest_alwaysAttach(st, nFiles) ==
  LET hasFeedback == st.currentIteration > 0 /\ Truthy(st.feedback)
  IN [iteration |-> st.currentIteration + 1,
      prompt |-> IF hasFeedback
                   THEN buildFeedbackOnlyPrompt(st.feedback)
                   ELSE buildMakerPrompt(st.makerPrompt, st.guidelines),
      files |-> nFiles,
      taskId |-> st.manusTaskId,
      previousOutputSignature |-> st.lastOutputSignature]

\* the request the maker node hands to client.generatePresentation
MakerRequest(st, nFiles) ==
  LET isFirstIteration == st.currentIteration = 0
      hasFeedback == st.currentIteration > 0 /\ Truthy(st.feedback)
  IN [iteration |-> st.currentIteration + 1,
      prompt |-> IF hasFeedback
                   THEN buildFeedbackOnlyPrompt(st.feedback)
                   ELSE buildMakerPrompt(st.makerPrompt, st.guidelines),
      files |-> IF isFirstIteration THEN nFiles ELSE 0,
      taskId |-> st.manusTaskId,
      previousOutputSignature |-> st.lastOutputSignature]

\* createOutputFile: a fresh file record for the iteration's output
createOutputFile(url, iteration) == [id |-> iteration, url |-> url]

\* variant: the task id of the latest response is stored
MakerUpdate_latestTask(st, r) ==
  LET iteration == st.currentIteration + 1
  IN [currentIteration |-> iteration,
      currentOutput |-> createOutputFile(r.outputUrl, iteration),
      manusTaskId |-> r.taskId,
      lastOutputSignature |-> r.outputSignature]

\* variant: the iteration number is not advanced
MakerUpdate_sameIteration(st, r) ==
  [currentIteration |-> st.currentIteration,
   currentOutput |-> createOutputFile(r.outputUrl, st.currentIteration + 1),
   manusTaskId |-> IF st.manusTaskId # NullId THEN st.manusTaskId ELSE r.taskId,
   lastOutputSignature |-> r.outputSignature]

\* the partial state the maker node returns
MakerUpdate(st, r) ==
  LET iteration == st.currentIteration + 1
  IN [currentIteration |-> iteration,
      currentOutput |-> createOutputFile(r.outputUrl, iteration),
      manusTaskId |-> IF st.manusTaskId # NullId
                        THEN st.manusTaskId ELSE r.taskId,
      lastOutputSignature |-> r.outputSignature]

\* waitForTaskWithNewOutput returns only a task whose signature is set and
\* differs from the previous one, when a previous one was passed
AcceptableResult(req, r) ==
  req.previousOutputSignature # NullSig =>
    /\ r.outputSignature # NullSig
    /\ r.outputSignature # req.previousOutputSignature

(* ---------------------------- checker node ---------------------------- *)

\* variant: the pass rule is dropped, only the iteration cap stops the run
determineShouldStop_capOnly(st, passed, confidence) ==
  st.currentIteration >= st.maxIterations

\* variant: the cap stops the run only once it has been exceeded
determineShouldStop_pastCap(st, passed, confidence) ==
  IF passed /\ confidence >= st.confidenceThreshold /\ st.autoStopOnPass
    THEN TRUE
    ELSE IF st.currentIteration > st.maxIterations THEN TRUE ELSE FALSE

\* determineShouldStop
determineShouldStop(st, passed, confidence) ==
  IF passed /\ confidence >= st.confidenceThreshold /\ st.autoStopOnPass
    THEN TRUE
    ELSE IF st.currentIteration >= st.maxIterations THEN TRUE ELSE FALSE

RECURSIVE NumberedIssues(_, _)
NumberedIssues(issues, i) ==
  IF i > Len(issues) THEN <<>>
  ELSE <<Line(i, issues[i])>> \o NumberedIssues(issues, i + 1)

\* variant: the issues are left out of the text
formatFeedbackForMaker_feedbackOnly(result) ==
  Text(<<Line(0, result.feedback)>>)

\* formatFeedbackForMaker
formatFeedbackForMaker(result) ==
  Text(<<Line(0, result.feedback)>>
       \o (IF Len(result.issues) > 0
             THEN <<Line(0, "\nSpecific issues to address:")>>
                  \o NumberedIssues(result.issues, 1)
             ELSE <<>>))

\* the IterationRecord the checker node builds from the review result
CheckerRecord(st, result) ==
  [iteration |-> st.currentIteration,
   outputFileId |-> st.currentOutput.id,
   outputFileUrl |-> st.currentOutput.url,
   passed |-> result.passed,
   confidence |-> result.confidence,
   feedback |-> result.feedback,
   issues |-> result.issues]

\* variant: the stopping iteration's output is not recorded as final
CheckerUpdate_noFinalOutput(st, result) ==
  LET shouldStop == determineShouldStop(st, result.passed, result.confidence)
  IN [iterationHistory |-> <<CheckerRecord(st, result)>>,
      feedback |-> IF result.passed THEN NullText
                   ELSE formatFeedbackForMaker(result),
      shouldStop |-> shouldStop,
      success |-> result.passed /\ result.confidence >= st.confidenceThreshold,
      finalOutput |-> NoFile]

\* variant: success is the verdict's passed flag alone
CheckerUpdate_successOnPass(st, result) ==
  LET shouldStop == determineShouldStop(st, result.passed, result.confidence)
  IN [iterationHistory |-> <<CheckerRecord(st, result)>>,
      feedback |-> IF result.passed THEN NullText
                   ELSE formatFeedbackForMaker(result),
      shouldStop |-> shouldStop,
      success |-> result.passed,
      finalOutput |-> IF shouldStop THEN st.currentOutput ELSE NoFile]

\* variant: the checker node advances the iteration number as well
CheckerUpdate_bumpIteration(st, result) ==
  LET shouldStop == determineShouldStop(st, result.passed, result.confidence)
  IN [currentIteration |-> st.currentIteration + 1,
      iterationHistory |-> <<CheckerRecord(st, result)>>,
      feedback |-> IF result.passed THEN NullText
                   ELSE formatFeedbackForMaker(result),
      shouldStop |-> shouldStop,
      success |-> result.passed
                  /\ result.confidence >= st.confidenceThreshold,
      finalOutput |-> IF shouldStop THEN st.currentOutput ELSE NoFile]

\* variant: finalOutput is set on every checker step
CheckerUpdate_alwaysFinal(st, result) ==
  [iterationHistory |-> <<CheckerRecord(st, result)>>,
   feedback |-> IF result.passed THEN NullText
                ELSE formatFeedbackForMaker(result),
   shouldStop |-> determineShouldStop(st, result.passed, result.confidence),
   success |-> result.passed /\ result.confidence >= st.confidenceThreshold,
   finalOutput |-> st.currentOutput]

\* the partial state the checker node returns
CheckerUpdate(st, result) ==
  LET record == CheckerRecord(st, result)
      shouldStop == determineShouldStop(st, result.passed, result.confidence)
  IN [iterationHistory |-> <<record>>,
      feedback |-> IF result.passed THEN NullText
                   ELSE formatFeedbackForMaker(result),
      shouldStop |-> shouldStop,
      success |-> result.passed
                  /\ result.confidence >= st.confidenceThreshold,
      finalOutput |-> IF shouldStop THEN st.currentOutput ELSE NoFile]

\* variant: a run that goes on is routed back to the checker node
routeAfterChecker_recheck(st) == IF st.shouldStop THEN "END" ELSE "checker"

\* routeAfterChecker: the conditional edge out of the checker node
routeAfterChecker(st) == IF st.shouldStop THEN "END" ELSE "maker"

(* ------------------- callbacks and stream events ---------------------- *)

\* executeWorkflow's callbacks: one typed event each, via sendEvent
onIterationStart(iteration) ==
  [type |-> "iteration_start", iteration |-> iteration]

onMakerComplete(iteration, output) ==
  [type |-> "maker_complete", iteration |-> iteration,
   outputFileId |-> output.id, outputFileUrl |-> output.url]

onCheckerComplete(rec) ==
  [type |-> "checker_complete", iteration |-> rec.iteration,
   passed |-> rec.passed, confidence |-> rec.confidence,
   feedback |-> rec.feedback, issues |-> rec.issues]

onWorkflowComplete(success, finalOutput, totalIterations) ==
  [type |-> "workflow_complete", success |-> success,
   totalIterations |-> totalIterations,
   finalOutputFileId |-> finalOutput.id,
   finalOutputFileUrl |-> finalOutput.url]

onError(iteration) ==
  [type |-> "error", iteration |-> iteration, by |-> "onError"]

\* handleWorkflowError
handleWorkflowError ==
  [type |-> "error", iteration |-> 0, by |-> "handleWorkflowError"]

\* variant: maker_complete is sent before the iteration_start check
LoopEvents_makerFirst(cs, li, node) ==
  LET started == cs.currentIteration > li
  IN (IF node = "maker" /\ cs.currentOutput # NoFile
        THEN <<onMakerComplete(cs.currentIteration, cs.currentOutput)>>
        ELSE <<>>)
     \o (IF started THEN <<onIterationStart(cs.currentIteration)>> ELSE <<>>)
     \o (IF node = "checker" /\ Len(cs.iterationHistory) > 0
           THEN <<onCheckerComplete(
                    cs.iterationHistory[Len(cs.iterationHistory)])>>
           ELSE <<>>)

\* body of the for-await loop of runWorkflowWithCallbacks for one stream
\* chunk { node: upd }: the events it sends, given the merged state
LoopEvents(cs, li, node) ==
  LET started == cs.currentIteration > li
  IN (IF started THEN <<onIterationStart(cs.currentIteration)>> ELSE <<>>)
     \o (IF node = "maker" /\ cs.currentOutput # NoFile
           THEN <<onMakerComplete(cs.currentIteration, cs.currentOutput)>>
           ELSE <<>>)
     \o (IF node = "checker" /\ Len(cs.iterationHistory) > 0
           THEN <<onCheckerComplete(
                    cs.iterationHistory[Len(cs.iterationHistory)])>>
           ELSE <<>>)

\* variant: lastIteration is never advanced
LoopLastIteration_stale(cs, li) == li

\* lastIteration after the loop body
LoopLastIteration(cs, li) ==
  IF cs.currentIteration > li THEN cs.currentIteration ELSE li

(* ------------------------ progress stream route ----------------------- *)

\* GET /api/workflow/status/[runId]: 404 unless the run is stored
OpenStream ==
  /\ pc = "none"
  /\ getWorkflow.present
  /\ pc' = "open"
  /\ request' = getWorkflow.request
  /\ UNCHANGED <<genVars, reviewVars, executions>>
  /\ UNCHANGED <<storeVars, startResp, state, currentState, lastIteration,
                 makerReq, events, closed, returned, pendingStatus, engLocal,
                 shouldStopValue, stopVars>>

\* runWorkflow / runRealWorkflow up to the call of executeWorkflow, with the
\* live engine selected; getFiles may come back empty, which throws
Preflight(filesFound) ==
  /\ pc = "open"
  /\ IF filesFound
       THEN /\ pc' = "maker"
            /\ state' = createInitialState(request)
            /\ currentState' = createInitialState(request)
            /\ lastIteration' = 0
            /\ executions' = executions + 1
       ELSE /\ pc' = "caught"
            /\ UNCHANGED <<state, currentState, lastIteration, executions>>
  /\ UNCHANGED <<genVars, reviewVars>>
  /\ UNCHANGED <<storeVars, startResp, request, makerReq, events, closed,
                 returned, pendingStatus, engLocal, shouldStopValue,
                 stopVars>>

\* setInterval(checkShouldStop, 5000) while executeWorkflow is pending
CheckShouldStop ==
  /\ pc \in {"maker", "makerWait", "checker", "checkerWait", "streamEnd"}
  /\ shouldStopValue' = (getWorkflow.present /\ getWorkflow.shouldStop)
  /\ shouldStopValue' # shouldStopValue
  /\ UNCHANGED <<genVars, reviewVars, executions>>
  /\ UNCHANGED <<storeVars, startResp, pc, request, state, currentState,
                 lastIteration, makerReq, events, closed, returned,
                 pendingStatus, engLocal, stopVars>>

\* the graph enters the maker node, which issues the generation call
MakerCall ==
  /\ pc = "maker"
  /\ makerReq' = MakerRequest(state, Len(request.fileIds))
  /\ pc' = "makerWait"
  /\ UNCHANGED <<genVars, reviewVars, executions>>
  /\ UNCHANGED <<storeVars, startResp, request, state, currentState,
                 lastIteration, events, closed, returned, pendingStatus,
                 engLocal, shouldStopValue, stopVars>>

\* the generation call returns; the graph streams { maker: update } and the
\* callback loop handles the chunk
MakerReturn(r) ==
  /\ pc = "makerWait"
  /\ AcceptableResult(makerReq, r)
  /\ LET upd == MakerUpdate(state, r)
         cs == extractStateFromEvent(currentState, upd)
     IN /\ state' = AnnotationReduce(state, upd)
        /\ currentState' = cs
        /\ lastIteration' = LoopLastIteration(cs, lastIteration)
        /\ events' = events \o LoopEvents(cs, lastIteration, "maker")
  /\ pc' = "checker"
  /\ UNCHANGED <<genVars, reviewVars, executions>>
  /\ UNCHANGED <<storeVars, startResp, request, makerReq, closed, returned,
                 pendingStatus, engLocal, shouldStopValue, stopVars>>

\* catch block of runWorkflowWithCallbacks: onError, then rethrow
CatchInEngine ==
  /\ events' = Append(events, onError(currentState.currentIteration))
  /\ pc' = "caught"
  /\ UNCHANGED <<genVars, reviewVars, executions>>
  /\ UNCHANGED <<storeVars, startResp, request, state, currentState,
                 lastIteration, makerReq, closed, returned, pendingStatus,
                 engLocal, shouldStopValue, stopVars>>

\* the generation call throws
MakerThrow ==
  /\ pc = "makerWait"
  /\ CatchInEngine

\* variant: the review call is issued whatever the current output is
CheckerCall_noGuard ==
  /\ pc = "checker"
  /\ pc' = "checkerWait"
  /\ UNCHANGED <<genVars, reviewVars, executions>>
  /\ UNCHANGED <<storeVars, startResp, request, state, currentState,
                 lastIteration, makerReq, events, closed, returned,
                 pendingStatus, engLocal, shouldStopValue, stopVars>>

\* the graph enters the checker node, which throws when there is no
\* current output and otherwise issues the review call
CheckerCall ==
  /\ pc = "checker"
  /\ IF state.currentOutput = NoFile
       THEN CatchInEngine
       ELSE /\ pc' = "checkerWait"
            /\ UNCHANGED <<genVars, reviewVars, executions>>
            /\ UNCHANGED <<storeVars, startResp, request, state,
                           currentState, lastIteration, makerReq, events,
                           closed, returned, pendingStatus, engLocal,
                           shouldStopValue, stopVars>>

\* the review call returns; the graph streams { checker: update }, the
\* callback loop handles the chunk and the graph routes on shouldStop
CheckerReturn(result) ==
  /\ pc = "checkerWait"
  /\ LET upd == CheckerUpdate(state, result)
         cs == extractStateFromEvent(currentState, upd)
     IN /\ state' = AnnotationReduce(state, upd)
        /\ currentState' = cs
        /\ lastIteration' = LoopLastIteration(cs, lastIteration)
        /\ events' = events \o LoopEvents(cs, lastIteration, "checker")
  /\ pc' = IF routeAfterChecker(state') = "END"
             THEN "streamEnd" ELSE routeAfterChecker(state')
  /\ UNCHANGED <<genVars, reviewVars, executions>>
  /\ UNCHANGED <<storeVars, startResp, request, makerReq, closed, returned,
                 pendingStatus, engLocal, shouldStopValue, stopVars>>

\* the review call throws
CheckerThrow ==
  /\ pc = "checkerWait"
  /\ CatchInEngine

\* the graph stream is exhausted: onWorkflowComplete, return currentState,
\* and createSSEResponse goes on to updateWorkflowStatus(runId, 'completed')
WorkflowComplete ==
  /\ pc = "streamEnd"
  /\ events' = Append(events,
                 onWorkflowComplete(currentState.success,
                                    currentState.finalOutput,
                                    currentState.currentIteration))
  /\ returned' = TRUE
  /\ pendingStatus' = "completed"
  /\ pc' = "updRead"
  /\ UNCHANGED <<genVars, reviewVars, executions>>
  /\ UNCHANGED <<storeVars, startResp, request, state, currentState,
                 lastIteration, makerReq, closed, engLocal, shouldStopValue,
                 stopVars>>

\* catch block of createSSEResponse: handleWorkflowError, then
\* updateWorkflowStatus(runId, 'failed')
HandleWorkflowError ==
  /\ pc = "caught"
  /\ events' = Append(events, handleWorkflowError)
  /\ pendingStatus' = "failed"
  /\ pc' = "updRead"
  /\ UNCHANGED <<genVars, reviewVars, executions>>
  /\ UNCHANGED <<storeVars, startResp, request, state, currentState,
                 lastIteration, makerReq, closed, returned, engLocal,
                 shouldStopValue, stopVars>>

\* updateWorkflowStatus of the stream handler: getWorkflow (and, on the
\* in-memory Map, the assignment to the live entry)
EngineStatusRead ==
  /\ pc = "updRead"
  /\ engLocal' = HeldCopy(engLocal)
  /\ IF getWorkflow.present /\ useRedis
       THEN pc' = "updWrite" /\ UNCHANGED store
       ELSE /\ pc' = "finally"
            /\ store' = IF getWorkflow.present
                          THEN WriteField(store, "status", pendingStatus)
                          ELSE store
  /\ UNCHANGED <<genVars, reviewVars, executions>>
  /\ UNCHANGED <<useRedis, startResp, request, state, currentState,
                 lastIteration, makerReq, events, closed, returned,
                 pendingStatus, shouldStopValue, stopVars>>

\* updateWorkflowStatus of the stream handler under Redis: status
\* assignment on the copy, setWorkflow
EngineStatusWrite ==
  /\ pc = "updWrite"
  /\ store' = WriteField(engLocal, "status", pendingStatus)
  /\ pc' = "finally"
  /\ UNCHANGED <<genVars, reviewVars, executions>>
  /\ UNCHANGED <<useRedis, startResp, request, state, currentState,
                 lastIteration, makerReq, events, closed, returned,
                 pendingStatus, engLocal, shouldStopValue, stopVars>>

\* finally block of createSSEResponse: controller.close()
CloseStream ==
  /\ pc = "finally"
  /\ closed' = TRUE
  /\ pc' = "closed"
  /\ UNCHANGED <<genVars, reviewVars, executions>>
  /\ UNCHANGED <<storeVars, startResp, request, state, currentState,
                 lastIteration, makerReq, events, returned, pendingStatus,
                 engLocal, shouldStopValue, stopVars>>

(* ----------------------------- stop route ----------------------------- *)

\* variant: the route does not look the run up before setting the flag
StopGet_noLookup ==
  /\ spc = "idle"
  /\ stops < MaxStops
  /\ stops' = stops + 1
  /\ spc' = "flagRead"
  /\ UNCHANGED <<genVars, reviewVars, executions>>
  /\ UNCHANGED <<storeVars, startResp, engineVars, stopLocal, stopResp>>

\* POST /api/workflow/stop/[runId]: getWorkflow, 404 when unknown
StopGet ==
  /\ spc = "idle"
  /\ stops < MaxStops
  /\ stops' = stops + 1
  /\ IF getWorkflow.present
       THEN spc' = "flagRead" /\ UNCHANGED stopResp
       ELSE spc' = "idle" /\ stopResp' = "404"
  /\ UNCHANGED <<genVars, reviewVars, executions>>
  /\ UNCHANGED <<storeVars, startResp, engineVars, stopLocal>>

\* setWorkflowShouldStop(runId, true): getWorkflow (and, on the in-memory
\* Map, the assignment to the live entry)
StopFlagRead ==
  /\ spc = "flagRead"
  /\ stopLocal' = HeldCopy(stopLocal)
  /\ IF getWorkflow.present /\ useRedis
       THEN spc' = "flagWrite" /\ UNCHANGED store
       ELSE /\ spc' = "statusRead"
            /\ store' = IF getWorkflow.present
                          THEN WriteField(store, "shouldStop", TRUE)
                          ELSE store
  /\ UNCHANGED <<genVars, reviewVars, executions>>
  /\ UNCHANGED <<useRedis, startResp, engineVars, stopResp, stops>>

\* setWorkflowShouldStop(runId, true) under Redis: flag assignment on the
\* copy, setWorkflow
StopFlagWrite ==
  /\ spc = "flagWrite"
  /\ store' = WriteField(stopLocal, "shouldStop", TRUE)
  /\ spc' = "statusRead"
  /\ UNCHANGED <<genVars, reviewVars, executions>>
  /\ UNCHANGED <<useRedis, startResp, engineVars, stopLocal, stopResp, stops>>

\* updateWorkflowStatus(runId, 'stopped'): getWorkflow (and, on the
\* in-memory Map, the assignment to the live entry and the answer)
StopStatusRead ==
  /\ spc = "statusRead"
  /\ stopLocal' = HeldCopy(stopLocal)
  /\ IF getWorkflow.present /\ useRedis
       THEN spc' = "statusWrite" /\ UNCHANGED <<store, stopResp>>
       ELSE /\ spc' = "idle"
            /\ stopResp' = "stopped"
            /\ store' = IF getWorkflow.present
                          THEN WriteField(store, "status", "stopped")
                          ELSE store
  /\ UNCHANGED <<genVars, reviewVars, executions>>
  /\ UNCHANGED <<useRedis, startResp, engineVars, stops>>

\* updateWorkflowStatus(runId, 'stopped') under Redis: status assignment on
\* the copy, setWorkflow, then the route answers { runId, status: 'stopped' }
StopStatusWrite ==
  /\ spc = "statusWrite"
  /\ store' = WriteField(stopLocal, "status", "stopped")
  /\ stopResp' = "stopped"
  /\ spc' = "idle"
  /\ UNCHANGED <<genVars, reviewVars, executions>>
  /\ UNCHANGED <<useRedis, startResp, engineVars, stopLocal, stops>>

(* ------------------------- generation client -------------------------- *)

\* the error leaves generatePresentation
Throw(err) ==
  /\ gpc' = "thrown"
  /\ thrown' = err
  /\ UNCHANGED <<genRequest, phase, notFoundRetries, lastDelay, task,
                 completedTask, pptxOutput, pdfOutput, genResult>>

\* uploadFile of the attached files succeeds
GenUpload ==
  /\ gpc = "upload"
  /\ gpc' = "create"
  /\ UNCHANGED taskRequests
  /\ UNCHANGED <<genRequest, phase, notFoundRetries, lastDelay, task,
                 caught, completedTask, pptxOutput, pdfOutput, thrown,
                 genResult>>
  /\ UNCHANGED <<storeVars, startResp, engineVars, stopVars, reviewVars,
                 executions>>

\* uploadFile fails
GenUploadFails(err) ==
  /\ gpc = "upload"
  /\ Throw(err)
  /\ UNCHANGED taskRequests
  /\ UNCHANGED caught
  /\ UNCHANGED <<storeVars, startResp, engineVars, stopVars, reviewVars,
                 executions>>

\* the createTask request of the current phase: the generation request,
\* or an export request on the completed task
CreateTaskRequest ==
  IF phase = "main"
    THEN [prompt |-> "generate", attachments |-> genRequest.files,
          taskId |-> genRequest.taskId]
    ELSE [prompt |-> phase, attachments |-> 0, taskId |-> completedTask.id]

\* createTask answers (for the generation task or for an export on it);
\* waitForTaskWithNewOutput starts with delay(1000)
GenCreateTask(id) ==
  /\ gpc = "create"
  /\ taskRequests' = Append(taskRequests, CreateTaskRequest)
  /\ IF id = NullId
       THEN Throw(InvalidResponse)
       ELSE /\ gpc' = "wait"
            /\ notFoundRetries' = 0
            /\ lastDelay' = "propagate"
            /\ task' = NoTask
            /\ UNCHANGED <<genRequest, phase, completedTask, pptxOutput,
                           pdfOutput, thrown, genResult>>
  /\ UNCHANGED caught
  /\ UNCHANGED <<storeVars, startResp, engineVars, stopVars, reviewVars,
                 executions>>

\* createTask fails
GenCreateTaskFails(err) ==
  /\ gpc = "create"
  /\ taskRequests' = Append(taskRequests, CreateTaskRequest)
  /\ Throw(err)
  /\ UNCHANGED caught
  /\ UNCHANGED <<storeVars, startResp, engineVars, stopVars, reviewVars,
                 executions>>

\* variant: any completed task ends the wait
HasNewOutput_anyCompleted(t, previousOutputSignature) ==
  t.status = "completed"

\* the return condition of the polling loop
HasNewOutput(t, previousOutputSignature) ==
  /\ t.status = "completed"
  /\ \/ previousOutputSignature = NoSignature
     \/ /\ buildOutputSignature(t) # NoSignature
        /\ buildOutputSignature(t) # previousOutputSignature

\* the previousOutputSignature the wait of the current phase is given
PreviousOf(ph) ==
  IF ph = "main" THEN genRequest.previousOutputSignature ELSE NoSignature

\* the first of the elements of a sequence at the given indexes, or
\* NoOutput when there is none
FirstAt(files, hits) ==
  IF hits = {} THEN NoOutput
  ELSE files[CHOOSE i \in hits : \A j \in hits : i <= j]

\* isGeneratedOutput / isUploadedInput
isGeneratedOutput(f) == f.path = "sandbox"
isUploadedInput(f) == f.path = "uploads"

\* findPptxOutput: the first generated PPTX of task.output, else the first
\* PPTX of task.output not named like an input, else the first PPTX of
\* task.outputs that is generated or not named like an input
findPptxOutput(t, inputFilenames) ==
  LET isPptx(f) == f.kind = "pptx"
      pass1 == FirstAt(t.files,
                 {i \in DOMAIN t.files :
                    isPptx(t.files[i]) /\ isGeneratedOutput(t.files[i])})
      pass2 == FirstAt(t.files,
                 {i \in DOMAIN t.files :
                    /\ isPptx(t.files[i])
                    /\ t.files[i].name \notin inputFilenames})
      legacyOutput ==
        FirstAt(t.outputs,
          {i \in DOMAIN t.outputs :
             /\ isPptx(t.outputs[i])
             /\ \/ isGeneratedOutput(t.outputs[i])
                \/ t.outputs[i].name \notin inputFilenames})
  IN IF pass1 # NoOutput THEN pass1
     ELSE IF pass2 # NoOutput THEN pass2
     ELSE legacyOutput

\* findPdfOutput: the first generated PDF of task.output, else the first
\* PDF of task.output that is neither under /uploads/ nor named like an
\* input, else the first generated PDF of task.outputs
findPdfOutput(t, inputFilenames) ==
  LET isPdf(f) == f.kind = "pdf"
      pass1 == FirstAt(t.files,
                 {i \in DOMAIN t.files :
                    isPdf(t.files[i]) /\ isGeneratedOutput(t.files[i])})
      pass2 == FirstAt(t.files,
                 {i \in DOMAIN t.files :
                    /\ isPdf(t.files[i])
                    /\ ~isUploadedInput(t.files[i])
                    /\ t.files[i].name \notin inputFilenames})
      legacyOutput ==
        FirstAt(t.outputs,
          {i \in DOMAIN t.outputs :
             isPdf(t.outputs[i]) /\ isGeneratedOutput(t.outputs[i])})
  IN IF pass1 # NoOutput THEN pass1
     ELSE IF pass2 # NoOutput THEN pass2
     ELSE legacyOutput

\* variant: the result is returned whether or not a PPTX was found
GenFinish_noCheck(ct, pptx, pdf) ==
  /\ gpc' = "returned"
  /\ genResult' = [taskId |-> ct.id, outputUrl |-> pptx.url,
                   pdfUrl |-> pdf.url,
                   outputSignature |-> buildOutputSignature(ct)]
  /\ UNCHANGED thrown

\* end of generatePresentation: no PPTX throws, else the result
GenFinish(ct, pptx, pdf) ==
  IF pptx = NoOutput
    THEN /\ gpc' = "thrown"
         /\ thrown' = InvalidResponse
         /\ UNCHANGED genResult
    ELSE /\ gpc' = "returned"
         /\ genResult' = [taskId |-> ct.id, outputUrl |-> pptx.url,
                          pdfUrl |-> pdf.url,
                          outputSignature |-> buildOutputSignature(ct)]
         /\ UNCHANGED thrown

\* generatePresentation from the return of a wait to its next request
GenAfterWait(t) ==
  LET ct == IF phase = "main" THEN t ELSE completedTask
      pptx == IF phase = "main" \/ phase = "pptx"
                THEN findPptxOutput(t, InputFilenames(genRequest))
                ELSE pptxOutput
      pdf == IF phase = "main" \/ phase = "pdf"
               THEN findPdfOutput(t, InputFilenames(genRequest))
               ELSE pdfOutput
      next == IF phase = "main" /\ pptx = NoOutput THEN "pptx"
              ELSE IF phase # "pdf" /\ pdf = NoOutput THEN "pdf"
              ELSE "finish"
  IN /\ completedTask' = ct
     /\ IF phase = "main" /\ t.id = NullId
          THEN /\ gpc' = "thrown"
               /\ thrown' = InvalidResponse
               /\ UNCHANGED <<phase, pptxOutput, pdfOutput, genResult>>
          ELSE /\ pptxOutput' = pptx
               /\ pdfOutput' = pdf
               /\ IF next = "finish"
                    THEN GenFinish(ct, pptx, pdf) /\ UNCHANGED phase
                    ELSE /\ gpc' = "create"
                         /\ phase' = next
                         /\ UNCHANGED <<thrown, genResult>>

\* one round of the polling loop in which getTask answers
GenLookup(t) ==
  /\ gpc = "wait"
  /\ UNCHANGED taskRequests
  /\ task' = t
  /\ caught' = NoError
  /\ notFoundRetries' = 0
  /\ UNCHANGED genRequest
  /\ IF t.status = "failed"
       THEN /\ gpc' = "thrown"
            /\ thrown' = TaskFailed
            /\ UNCHANGED <<phase, lastDelay, completedTask, pptxOutput,
                           pdfOutput, genResult>>
       ELSE IF HasNewOutput(t, PreviousOf(phase))
         THEN GenAfterWait(t) /\ UNCHANGED lastDelay
         ELSE /\ lastDelay' = "pollInterval"
              /\ UNCHANGED <<gpc, phase, completedTask, pptxOutput,
                             pdfOutput, thrown, genResult>>
  /\ UNCHANGED <<storeVars, startResp, engineVars, stopVars, reviewVars,
                 executions>>

\* retries of a lookup that answers not-found
maxNotFoundRetries == 5

\* one round of the polling loop in which getTask throws
GenLookupFails(err) ==
  /\ gpc = "wait"
  /\ UNCHANGED taskRequests
  /\ caught' = err
  /\ IF err.messageHas404
       THEN /\ notFoundRetries' = notFoundRetries + 1
            /\ IF notFoundRetries' >= maxNotFoundRetries
                 THEN /\ gpc' = "thrown"
                      /\ thrown' = TaskNotFound
                      /\ UNCHANGED lastDelay
                 ELSE /\ lastDelay' = "pollInterval2"
                      /\ UNCHANGED <<gpc, thrown>>
            /\ UNCHANGED <<genRequest, phase, task, completedTask,
                           pptxOutput, pdfOutput, genResult>>
       ELSE Throw(err)
  /\ UNCHANGED <<storeVars, startResp, engineVars, stopVars, reviewVars,
                 executions>>

(* --------------------------- specification ---------------------------- *)

Next ==
  \/ \E req \in Requests : Submit(req)
  \/ OpenStream
  \/ \E filesFound \in BOOLEAN : Preflight(filesFound)
  \/ CheckShouldStop
  \/ MakerCall
  \/ \E r \in MakerResults : MakerReturn(r)
  \/ MakerThrow
  \/ CheckerCall
  \/ \E result \in Verdicts : CheckerReturn(result)
  \/ CheckerThrow
  \/ WorkflowComplete
  \/ HandleWorkflowError
  \/ EngineStatusRead
  \/ EngineStatusWrite
  \/ CloseStream
  \/ StopGet
  \/ StopFlagRead
  \/ StopFlagWrite
  \/ StopStatusRead
  \/ StopStatusWrite

Spec == Init /\ [][Next]_vars

\* the steps of the stream handler once the request is being served; each
\* is the continuation of an await whose promise settles
HandlerStep ==
  \/ \E filesFound \in BOOLEAN : Preflight(filesFound)
  \/ MakerCall
  \/ \E r \in MakerResults : MakerReturn(r)
  \/ CheckerCall
  \/ \E result \in Verdicts : CheckerReturn(result)
  \/ WorkflowComplete
  \/ HandleWorkflowError
  \/ EngineStatusRead
  \/ EngineStatusWrite
  \/ CloseStream

\* the steps of the stop route after its lookup
StopStep ==
  \/ StopFlagRead
  \/ StopFlagWrite
  \/ StopStatusRead
  \/ StopStatusWrite

\* the program with every generation call and every review call
\* returning: the handlers run to their end, the timer and the clients
\* act when they like
ReturningNext ==
  \/ \E req \in Requests : Submit(req)
  \/ OpenStream
  \/ CheckShouldStop
  \/ HandlerStep
  \/ StopGet
  \/ StopStep

ReturningSpec ==
  Init /\ [][ReturningNext]_vars /\ WF_vars(HandlerStep) /\ WF_vars(StopStep)

\* the states createCheckerNode's node function may be handed: a
\* WorkflowState of an accepted submission with any iteration number,
\* with or without a current output, with or without pending feedback
NodeStates ==
  { [createInitialState(req) EXCEPT
       !.currentIteration = n, !.currentOutput = out, !.feedback = fb] :
      req \in {r \in Requests : /\ r.fileIds # <<>>
                                /\ r.makerPrompt = "make"
                                /\ r.checkerPrompt = "check"},
      n \in 0..MaxIter,
      out \in {NoFile, createOutputFile("u1", 1)},
      fb \in {NullText, Text(<<Line(0, "fix")>>)} }

\* the checker node on its own, streamed through runWorkflowWithCallbacks,
\* for every state it may be handed
CheckerNodeInit ==
  /\ useRedis = FALSE
  /\ executions = 0
  /\ store = NoEntry
  /\ startResp = "none"
  /\ pc = "checker"
  /\ request = NoRequest
  /\ state \in NodeStates
  /\ currentState = state
  /\ lastIteration = state.currentIteration
  /\ makerReq = NoMakerReq
  /\ events = <<>>
  /\ closed = FALSE
  /\ returned = FALSE
  /\ pendingStatus = "running"
  /\ engLocal = NoEntry
  /\ shouldStopValue = FALSE
  /\ spc = "idle"
  /\ stopLocal = NoEntry
  /\ stopResp = "none"
  /\ stops = 0
  /\ GenIdle
  /\ ReviewIdle

CheckerNodeNext ==
  \/ CheckerCall
  \/ \E result \in Verdicts : CheckerReturn(result)
  \/ CheckerThrow

CheckerNodeSpec == CheckerNodeInit /\ [][CheckerNodeNext]_vars

(* ----------------------- another GET of the stream -------------------- *)

\* GET /api/workflow/status/[runId] once more, after the stream of an
\* earlier GET was closed: the route looks the run up and, whatever its
\* status, builds a new stream whose start() runs the workflow
ReopenStream ==
  /\ pc = "closed"
  /\ getWorkflow.present
  /\ executions < MaxOpens
  /\ pc' = "open"
  /\ request' = getWorkflow.request
  /\ events' = <<>>
  /\ closed' = FALSE
  /\ returned' = FALSE
  /\ pendingStatus' = "running"
  /\ engLocal' = NoEntry
  /\ shouldStopValue' = FALSE
  /\ UNCHANGED <<genVars, reviewVars, executions>>
  /\ UNCHANGED <<storeVars, startResp, state, currentState, lastIteration,
                 makerReq, stopVars>>

\* submissions that are accepted, with the middle threshold
ReconnectRequests ==
  {r \in Requests : /\ r.fileIds # <<>>
                    /\ r.makerPrompt = "make"
                    /\ r.checkerPrompt = "check"
                    /\ r.config.confidenceThreshold = 5}

\* a run whose progress stream is requested again after it was closed;
\* no stop command is sent
ReconnectNext ==
  \/ \E req \in ReconnectRequests : Submit(req)
  \/ OpenStream
  \/ \E filesFound \in BOOLEAN : Preflight(filesFound)
  \/ MakerCall
  \/ \E r \in MakerResults : MakerReturn(r)
  \/ MakerThrow
  \/ CheckerCall
  \/ \E result \in Verdicts : CheckerReturn(result)
  \/ CheckerThrow
  \/ WorkflowComplete
  \/ HandleWorkflowError
  \/ EngineStatusRead
  \/ EngineStatusWrite
  \/ CloseStream
  \/ ReopenStream

ReconnectSpec == Init /\ [][ReconnectNext]_vars

(* ------------------- review of the checker node ----------------------- *)

\* the key of buildAttachments: file.id || file.url || file.name
FileKey(file) ==
  IF file.id # "" THEN file.id
  ELSE IF file.url # "" THEN file.url ELSE file.name

\* variant: every file that has a key is kept
UniqueFiles_keepAll(files, seen) ==
  SelectSeq(files, LAMBDA f : FileKey(f) # "")

\* the values of the Map unique, in insertion order: a file is set only
\* when it has a key that the Map does not hold yet
RECURSIVE UniqueFiles(_, _)
UniqueFiles(files, seen) ==
  IF files = <<>> THEN <<>>
  ELSE LET file == Head(files)
           key == FileKey(file)
       IN IF key # "" /\ key \notin seen
            THEN <<file>> \o UniqueFiles(Tail(files), seen \cup {key})
            ELSE UniqueFiles(Tail(files), seen)

\* buildAttachments: one entry for every unique file whose download
\* succeeds; a file whose fetch throws is skipped with a warning
buildAttachments(files, failing) ==
  SelectSeq(UniqueFiles(files, {}),
            LAMBDA f : f.url # "" /\ f.url \notin failing)

\* variant: a numeric confidence is returned as it is
clamp_none(value, min, max) == value

\* clamp: Math.min(Math.max(value, min), max)
clamp(value, min, max) ==
  LET low == IF value > min THEN value ELSE min
  IN IF low < max THEN low ELSE max

\* validateCheckerResult; the range [0, 1] is 0..10 in tenths
validateCheckerResult(data) ==
  [passed |-> IF data.passed.t = "boolean" THEN data.passed.v ELSE FALSE,
   confidence |-> IF data.confidence.t = "number"
                    THEN clamp(data.confidence.v, 0, 10) ELSE 0,
   feedback |-> IF data.feedback.t = "string"
                  THEN data.feedback.v ELSE "No feedback provided",
   issues |-> IF data.issues.t = "array"
                THEN LET strs == SelectSeq(data.issues.v,
                                           LAMBDA i : i.t = "string")
                     IN [k \in 1..Len(strs) |-> strs[k].v]
                ELSE <<>>]

\* the checker node builds the attachments of the review call from
\* [...state.inputFiles, ...state.sampleFiles]
ReviewBuildAttachments(failing) ==
  /\ rpc = "attach"
  /\ attachments' = buildAttachments(
                       reviewFiles.inputFiles \o reviewFiles.sampleFiles,
                       failing)
  /\ rpc' = "review"
  /\ UNCHANGED <<reviewFiles, parsed, verdict>>
  /\ UNCHANGED <<storeVars, startResp, engineVars, stopVars, genVars,
                 executions>>

\* reviewPresentation: the answer holds a JSON object, which
\* parseJsonResponse parses and validateCheckerResult normalises
ReviewAnswer(data) ==
  /\ rpc = "review"
  /\ parsed' = data
  /\ verdict' = validateCheckerResult(data)
  /\ rpc' = "returned"
  /\ UNCHANGED <<reviewFiles, attachments>>
  /\ UNCHANGED <<storeVars, startResp, engineVars, stopVars, genVars,
                 executions>>

\* reviewPresentation throws: the request fails, the answer has no text
\* block or no JSON object in it, or JSON.parse throws
ReviewThrows ==
  /\ rpc = "review"
  /\ rpc' = "thrown"
  /\ UNCHANGED <<reviewFiles, attachments, parsed, verdict>>
  /\ UNCHANGED <<storeVars, startResp, engineVars, stopVars, genVars,
                 executions>>

\* one review of the checker node on its own, for every pair of file
\* lists; the download of ua may fail
ReviewInit ==
  /\ useRedis = FALSE
  /\ RunIdle
  /\ GenIdle
  /\ rpc = "attach"
  /\ reviewFiles \in ReviewInputs
  /\ attachments = <<>>
  /\ parsed = NoParsed
  /\ verdict = NoVerdict

ReviewNext ==
  \/ \E failing \in {{}, {"ua"}} : ReviewBuildAttachments(failing)
  \/ \E data \in ParsedObjects : ReviewAnswer(data)
  \/ ReviewThrows

ReviewSpec == ReviewInit /\ [][ReviewNext]_vars

\* one generatePresentation call on its own, for every request
GenInit ==
  /\ useRedis = FALSE
  /\ RunIdle
  /\ ReviewIdle
  /\ genRequest \in GenRequests
  /\ gpc = IF genRequest.files > 0 THEN "upload" ELSE "create"
  /\ phase = "main"
  /\ notFoundRetries = 0
  /\ lastDelay = "none"
  /\ task = NoTask
  /\ caught = NoError
  /\ completedTask = NoTask
  /\ pptxOutput = NoOutput
  /\ pdfOutput = NoOutput
  /\ thrown = NoError
  /\ genResult = NoResult
  /\ taskRequests = <<>>

GenNext ==
  \/ GenUpload
  \/ \E err \in RequestErrors : GenUploadFails(err)
  \/ \E id \in {NullId, "t1"} : GenCreateTask(id)
  \/ \E err \in RequestErrors : GenCreateTaskFails(err)
  \/ \E t \in TaskStates : GenLookup(t)
  \/ \E err \in RequestErrors : GenLookupFails(err)

GenSpec == GenInit /\ [][GenNext]_vars

\* every request of the client answers or aborts on its timer and every
\* delay ends, so a call that can take a step takes one
GenFairSpec == GenInit /\ [][GenNext]_vars /\ WF_vars(GenNext)

(* ------------------------- claims: helpers ---------------------------- *)

EventIdx == 1..Len(events)
IsType(i, t) == events[i].type = t
IsTerminalEvent(i) == events[i].type \in {"workflow_complete", "error"}

\* iteration numbers carried by the events of one type, in emission order
RECURSIVE IterationsOf(_, _)
IterationsOf(t, i) ==
  IF i > Len(events) THEN <<>>
  ELSE (IF events[i].type = t THEN <<events[i].iteration>> ELSE <<>>)
       \o IterationsOf(t, i + 1)

CountsUp(seq) == \A i \in 1..Len(seq) : seq[i] = i

\* the checker step of the current iteration has completed
AfterChecker ==
  /\ state.currentIteration >= 1
  /\ Len(state.iterationHistory) = state.currentIteration

LastRecord == state.iterationHistory[Len(state.iterationHistory)]

\* rule 1 of the stop rule fired on the latest verdict
AutoStopFired ==
  /\ LastRecord.passed
  /\ LastRecord.confidence >= state.confidenceThreshold
  /\ state.autoStopOnPass

AfterEngine == pc \in {"updRead", "updWrite", "finally", "closed"}

\* a maker or checker step has thrown
StepThrew == \E i \in EventIdx : IsType(i, "error") /\ events[i].by = "onError"

(* ------------------------------ claims -------------------------------- *)

\* C1: after a checker step whose verdict passed with confidence at or above
\* the threshold while autoStopOnPass is set, the graph state has shouldStop
\* and success set, no maker call follows, and every workflow_complete of
\* the run reports success; once the engine is done that event is there.
C1_AutoStopEndsWithSuccess ==
  (AfterChecker /\ AutoStopFired) =>
    /\ state.shouldStop
    /\ state.success
    /\ pc \in {"streamEnd", "updRead", "updWrite", "finally", "closed"}
    /\ \A i \in EventIdx : IsType(i, "workflow_complete") => events[i].success
    /\ AfterEngine => \E i \in EventIdx : IsType(i, "workflow_complete")

\* C1 witness: a run auto-stopped below its iteration cap and closed
C1_Witness ==
  /\ pc = "closed"
  /\ AfterChecker /\ AutoStopFired
  /\ state.currentIteration < state.maxIterations
  /\ \E i \in EventIdx : IsType(i, "workflow_complete") /\ events[i].success

\* C2: when a checker step completes at currentIteration >= maxIterations
\* and the auto-stop rule did not fire, the engine stops with success =
\* false, in the graph state and in workflow_complete.
C2_CapReachedIsFailure ==
  (AfterChecker /\ ~AutoStopFired
     /\ state.currentIteration >= state.maxIterations) =>
    /\ state.shouldStop
    /\ ~state.success
    /\ \A i \in EventIdx :
         IsType(i, "workflow_complete") => ~events[i].success

\* C3: when the cancellation predicate handed to the engine is true after
\* the checker step of iteration k and before the maker call of iteration
\* k+1, the engine's next step is not that maker call but the end of the
\* run: workflow_complete{success: false} whose final artifact is the
\* output of iteration k (so iteration_start{k+1} is never sent).
C3_StopPreventsNextMaker ==
  [][(pc = "maker" /\ state.currentIteration >= 1 /\ shouldStopValue
        /\ pc' # pc)
       => /\ pc' # "makerWait"
          /\ Len(events') = Len(events) + 1
          /\ events'[Len(events')].type = "workflow_complete"
          /\ ~events'[Len(events')].success
          /\ events'[Len(events')].finalOutputFileId
               = state.currentOutput.id]_vars

\* C4: for every n, iteration_start{n} comes before maker_complete{n} and
\* maker_complete{n} before checker_complete{n}, and neither of the latter
\* two is sent without its predecessor for the same n.
C4_EventOrderPerIteration ==
  \A j \in EventIdx :
    /\ IsType(j, "maker_complete") =>
         /\ \E i \in 1..(j - 1) :
              /\ IsType(i, "iteration_start")
              /\ events[i].iteration = events[j].iteration
         /\ \A i \in EventIdx :
              (IsType(i, "iteration_start")
                 /\ events[i].iteration = events[j].iteration) => i < j
    /\ IsType(j, "checker_complete") =>
         /\ \E i \in 1..(j - 1) :
              /\ IsType(i, "maker_complete")
              /\ events[i].iteration = events[j].iteration
         /\ \A i \in EventIdx :
              (IsType(i, "maker_complete")
                 /\ events[i].iteration = events[j].iteration) => i < j

\* C4 witness: the second iteration has sent all three of its events
C4_Witness ==
  \E i, j, k \in EventIdx :
    /\ i < j /\ j < k
    /\ IsType(i, "iteration_start") /\ events[i].iteration = 2
    /\ IsType(j, "maker_complete") /\ events[j].iteration = 2
    /\ IsType(k, "checker_complete") /\ events[k].iteration = 2

\* C5: the iteration numbers of each of iteration_start, maker_complete and
\* checker_complete run 1, 2, 3, ... with no gap and no repeat.
C5_IterationNumbersCountUp ==
  /\ CountsUp(IterationsOf("iteration_start", 1))
  /\ CountsUp(IterationsOf("maker_complete", 1))
  /\ CountsUp(IterationsOf("checker_complete", 1))

\* C5 witness: two full iterations have been announced
C5_Witness ==
  /\ IterationsOf("iteration_start", 1) = <<1, 2>>
  /\ IterationsOf("checker_complete", 1) = <<1, 2>>

\* C6: the state returned by runWorkflowWithCallbacks has as many history
\* records as iterations were run, which is the totalIterations reported.
C6_ReturnedHistoryLength ==
  returned =>
    /\ currentState.currentIteration <= currentState.maxIterations
    /\ Len(currentState.iterationHistory) = currentState.currentIteration
    /\ \A i \in EventIdx :
         IsType(i, "workflow_complete") =>
           events[i].totalIterations = Len(currentState.iterationHistory)

\* C7: at most one terminal event (workflow_complete or error) is sent, it
\* is the last typed event, and a closed stream has sent exactly one.
C7_SingleTerminalEvent ==
  /\ \A i \in EventIdx : IsTerminalEvent(i) => i = Len(events)
  /\ closed => (Len(events) > 0 /\ IsTerminalEvent(Len(events)))

\* C8: when a maker or checker step throws, no further step runs, no
\* record is appended for the failed step, no workflow_complete is sent, an
\* error event is sent, and the registry status ends as failed.
C8_ThrowAbortsRun ==
  StepThrew =>
    /\ pc \in {"caught", "updRead", "updWrite", "finally", "closed"}
    /\ Len(state.iterationHistory)
         = Len(IterationsOf("checker_complete", 1))
    /\ \A i \in EventIdx : ~IsType(i, "workflow_complete")
    /\ pc = "closed" => (store.present /\ store.status = "failed")

\* C9: every error event sent after a step failed carries the number of
\* the iteration in progress, the one of the latest maker call.
C9_ErrorCarriesIteration ==
  StepThrew =>
    \A i \in EventIdx :
      IsType(i, "error") => events[i].iteration = makerReq.iteration

\* C10: once the registry status is stopped, completed or failed, no later
\* write changes it.
C10_StatusSetOnce ==
  [][(store.present /\ store.status # "running")
       => store'.status = store.status]_vars

\* C11: under every interleaving of the stop route's and the stream
\* handler's read-then-overwrite of the run record no update is lost: once
\* the stop route has answered stopped the stored shouldStop is true, and
\* no write sets a stored shouldStop of true back to false.
C11_StopFlagNeverLost ==
  [][/\ stopResp' = "stopped" => store'.shouldStop
     /\ store.shouldStop => store'.shouldStop]_vars

\* C12: a stop command for a run the registry does not hold answers 404 and
\* leaves the registry as it was; for a stored run the route's
\* setWorkflowShouldStop leaves shouldStop = true in the registry and the
\* route then answers stopped, whatever the stream handler is doing.
C12_StopRoute ==
  [][/\ (stops' # stops /\ ~store.present)
          => (stopResp' = "404" /\ store' = store /\ spc' = "idle")
     /\ (stops' # stops /\ store.present)
          => (stopResp' = stopResp /\ spc' = "flagRead")
     /\ (spc \in {"flagRead", "flagWrite"} /\ spc' = "statusRead")
          => (store'.present /\ store'.shouldStop)
     /\ (spc \in {"statusRead", "statusWrite"} /\ spc' = "idle")
          => (stopResp' = "stopped" /\ engineVars' = engineVars)
     /\ (stopResp' = "stopped" /\ stopResp # "stopped")
          => spc \in {"statusRead", "statusWrite"}]_vars

\* C12 witness: the route has answered stopped while the generation call
\* of the run is still in flight
C12_Witness ==
  /\ stopResp = "stopped"
  /\ store.present /\ store.shouldStop
  /\ pc = "makerWait"

\* a prompt with something other than whitespace in it
NonBlank(prompt) == prompt \notin {"", " "}

\* C13: a submission with no input file ids, or with a maker or checker
\* prompt that is empty or whitespace only, is answered 400 and leaves the
\* registry as it was; an accepted submission creates the record of the
\* run with status running and shouldStop false and is answered started,
\* and no record is created any other way.
C13_SubmissionValidation ==
  [][/\ (startResp' = "400" /\ startResp' # startResp) => store' = store
     /\ (~store.present /\ store'.present)
          => /\ startResp' = "started" /\ startResp # "started"
             /\ store'.status = "running"
             /\ ~store'.shouldStop
             /\ Len(store'.request.fileIds) > 0
             /\ NonBlank(store'.request.makerPrompt)
             /\ NonBlank(store'.request.checkerPrompt)
     /\ (startResp' = "started" /\ startResp # "started")
          => (~store.present /\ store'.present)
     /\ store.present => store'.present]_vars

\* C13 witness: a submission was accepted and nothing else has happened
C13_Witness ==
  /\ startResp = "started"
  /\ store.present /\ store.status = "running" /\ ~store.shouldStop
  /\ pc = "none" /\ stops = 0

\* the verdict of the previous iteration left feedback text for the maker
FeedbackPending ==
  /\ Len(state.iterationHistory) > 0
  /\ ~LastRecord.passed
  /\ (LastRecord.feedback # "" \/ Len(LastRecord.issues) > 0)

\* C14: the maker call of iteration 1 carries the submission's generation
\* prompt with its guidelines; a maker call of a later iteration for which
\* the previous verdict left feedback text carries that feedback (with its
\* numbered issues) and neither the generation prompt nor the guidelines.
C14_PromptPolicy ==
  pc = "makerWait" =>
    /\ makerReq.iteration = 1 =>
         /\ makerReq.prompt.kind = "full"
         /\ makerReq.prompt.base = request.makerPrompt
         /\ makerReq.prompt.guidelines = request.guidelines
    /\ (makerReq.iteration > 1 /\ FeedbackPending) =>
         /\ makerReq.prompt.kind = "feedback"
         /\ makerReq.prompt.base = ""
         /\ makerReq.prompt.guidelines = ""
         /\ ~makerReq.prompt.feedback.isNull
         /\ makerReq.prompt.feedback.lines[1].s = LastRecord.feedback
         /\ Len(makerReq.prompt.feedback.lines)
              = 1 + (IF Len(LastRecord.issues) > 0
                       THEN 1 + Len(LastRecord.issues) ELSE 0)

\* C14 witness: the maker call of iteration 2 is in flight after a failed
\* verdict with feedback
C14_Witness ==
  /\ pc = "makerWait"
  /\ makerReq.iteration = 2
  /\ FeedbackPending
  /\ makerReq.prompt.kind = "feedback"

\* C15: the maker call of iteration 1 attaches the input files of the
\* submission, and every maker call of a later iteration attaches none.
C15_AttachmentsFirstIterationOnly ==
  pc = "makerWait" =>
    /\ makerReq.iteration = 1 => makerReq.files = Len(request.fileIds)
    /\ makerReq.iteration > 1 => makerReq.files = 0

\* C15 witness: the maker call of iteration 2 of a run with input files
C15_Witness ==
  /\ pc = "makerWait"
  /\ makerReq.iteration = 2
  /\ Len(request.fileIds) > 0
  /\ makerReq.files = 0

\* C16: once a maker call has stored a task id in the graph state no later
\* step changes it, the first maker call to return stores one, and every
\* maker call of a later iteration passes the stored id as its taskId.
C16_TaskHandleRetained ==
  [][/\ state.manusTaskId # NullId => state'.manusTaskId = state.manusTaskId
     /\ (pc = "makerWait" /\ pc' = "checker") => state'.manusTaskId # NullId
     /\ (pc' = "makerWait" /\ makerReq'.iteration > 1)
          => /\ makerReq'.taskId # NullId
             /\ makerReq'.taskId = state'.manusTaskId]_vars

\* C16 witness: the second maker call came back from another task, and
\* the state still names the task of the first call
C16_Witness ==
  /\ state.currentIteration = 2
  /\ state.manusTaskId = "t1"
  /\ state.lastOutputSignature = "s2"
  /\ state.currentOutput.url = "u2"

GenDone == gpc \in {"returned", "thrown"}

\* C17: every generation call ends, with a result or with an error: the
\* polling loop does not go on forever when the task never completes or
\* never shows a changed signature.
C17_GenerationCallTerminates == <>GenDone

\* the signature is none or the one passed as previousOutputSignature
Unchanged(t) ==
  buildOutputSignature(t) \in
    {NoSignature, genRequest.previousOutputSignature}

\* C18: when previousOutputSignature is passed, the wait on the generation
\* task returns no task whose signature is empty or equal to it: a
\* completed lookup result with such a signature is followed by
\* delay(pollInterval) and another lookup, and the result of the call
\* carries a signature different from the one passed.
C18_NoUnchangedFingerprint ==
  [][(phase = "main" /\ genRequest.previousOutputSignature # NoSignature)
       => /\ (gpc = "wait" /\ notFoundRetries' = 0 /\ thrown' = thrown
                /\ task'.status = "completed" /\ Unchanged(task'))
               => (gpc' = "wait" /\ lastDelay' = "pollInterval")
          /\ (gpc = "wait" /\ gpc' \in {"create", "returned"})
               => (completedTask' = task' /\ ~Unchanged(task'))
          /\ gpc' = "returned"
               => /\ genResult'.outputSignature # NoSignature
                  /\ genResult'.outputSignature
                       # genRequest.previousOutputSignature]_vars

\* C18 witness: a call given a signature returned after a completed lookup
\* result that listed one more file
C18_Witness ==
  /\ gpc = "returned"
  /\ genRequest.previousOutputSignature = <<1>>
  /\ genResult.outputSignature = <<1, 2>>

\* C19: a lookup error is retried only when it is a not-found (404)
\* answer, then after a doubled delay and at most until the fifth
\* not-found answer in a row, which ends the call with an error; any other
\* lookup error ends the call at once with that error.
C19_NotFoundRetriedFiveTimes ==
  /\ notFoundRetries <= 5
  /\ notFoundRetries = 5 => (gpc = "thrown" /\ thrown = TaskNotFound)
  /\ (gpc = "wait" /\ caught # NoError)
       => (caught.status = 404 /\ lastDelay = "pollInterval2")
  /\ (caught # NoError /\ caught.status # 404)
       => (gpc = "thrown" /\ thrown = caught)

\* a timeout, a 5xx or a 429
Transient(err) == err.code = "MANUS_TIMEOUT" \/ err.status \in {429, 500}

\* C20: the failure of the first createTask request of a call is not
\* handed to the caller when it is transient (the request is tried again
\* after a delay first), and a response without a task id is handed to
\* the caller as an invalid response at once.
C20_TransientErrorsRetried ==
  [][(gpc = "create" /\ phase = "main" /\ gpc' = "thrown")
       => (~Transient(thrown') /\ thrown' = InvalidResponse)]_vars

\* C21: within one run at most one client step is in flight (the graph is
\* in one node at a time): while the review call of iteration n is in
\* flight the maker step of iteration n has completed and the checker step
\* of n has not, and while the generation call of iteration n+1 is in
\* flight the checker step of iteration n has completed.
C21_OneStepInFlight ==
  /\ pc = "checkerWait"
       => /\ state.currentIteration = makerReq.iteration
          /\ state.currentOutput.id = makerReq.iteration
          /\ Len(state.iterationHistory) = makerReq.iteration - 1
  /\ pc = "makerWait"
       => /\ makerReq.iteration = state.currentIteration + 1
          /\ Len(state.iterationHistory) = state.currentIteration
          /\ \A i \in 1..state.currentIteration :
               state.iterationHistory[i].iteration = i

\* C21 witness: the generation call of iteration 2 is in flight, after
\* the checker step of iteration 1 completed
C21_Witness ==
  /\ pc = "makerWait"
  /\ makerReq.iteration = 2
  /\ Len(state.iterationHistory) = 1

\* C22: in the engine's run state, after every checker step completes
\* (the graph is about to enter the maker node again or has ended its
\* stream), the length of the iteration history equals currentIteration.
C22_HistoryLengthIsIteration ==
  pc \in {"maker", "streamEnd"}
    => Len(state.iterationHistory) = state.currentIteration

\* C22 witness: the checker step of iteration 2 has completed
C22_Witness ==
  /\ pc = "streamEnd"
  /\ state.currentIteration = 2
  /\ Len(state.iterationHistory) = 2

\* the stream handler is past the engine's run, which did not throw
EndedThroughChecker ==
  /\ pc \in {"streamEnd", "updRead", "updWrite", "finally", "closed"}
  /\ ~StepThrew
  /\ Len(state.iterationHistory) = state.currentIteration

\* C23: in every engine state finalOutput is non-null if and only if
\* shouldStop is true and the run reached its end through a checker step;
\* it is null in the initial state and after every checker step that
\* continues, and when set it is the current output of the stopping
\* iteration.
C23_FinalOutputIffStopped ==
  /\ (state.finalOutput # NoFile)
       <=> (state.shouldStop /\ EndedThroughChecker)
  /\ pc \in {"none", "open", "maker", "makerWait", "checker", "checkerWait"}
       => state.finalOutput = NoFile
  /\ state.finalOutput # NoFile
       => /\ state.finalOutput = state.currentOutput
          /\ state.finalOutput.id = state.currentIteration
          /\ LastRecord.outputFileId = state.finalOutput.id
  /\ (currentState.finalOutput # NoFile) <=> currentState.shouldStop

\* C23 witness: a run that continued after iteration 1 and stopped in
\* iteration 2 holds the output of iteration 2 as its final output
C23_Witness ==
  /\ pc = "closed"
  /\ state.shouldStop
  /\ state.finalOutput = createOutputFile("u2", 2)

\* C24: the iteration history never holds two records with the same
\* iteration number: the record the checker step appends for iteration n
\* is the only one numbered n, in every reachable state and in the final
\* history.
C24_OneRecordPerIteration ==
  /\ \A i, j \in 1..Len(state.iterationHistory) :
       state.iterationHistory[i].iteration
         = state.iterationHistory[j].iteration => i = j
  /\ \A i \in 1..Len(state.iterationHistory) :
       state.iterationHistory[i].iteration \in 1..state.currentIteration

\* C24 witness: the final history of a run of two iterations
C24_Witness ==
  /\ pc = "closed"
  /\ Len(state.iterationHistory) = 2
  /\ state.iterationHistory[1].iteration = 1
  /\ state.iterationHistory[2].iteration = 2

\* C25: the checker step sets the pending feedback to null when the
\* verdict passed; when it did not pass, to a text that starts with the
\* verdict's feedback string and ends with the numbered list (1., 2., ...)
\* of the verdict's issues in their original order, and that is the
\* feedback string alone when there are no issues.
C25_PendingFeedback ==
  AfterChecker =>
    LET fb == state.feedback
        n == Len(LastRecord.issues)
    IN IF LastRecord.passed
         THEN fb = NullText
         ELSE /\ ~fb.isNull
              /\ Len(fb.lines) >= 1 + n
              /\ fb.lines[1] = Line(0, LastRecord.feedback)
              /\ \A i \in 1..n :
                   fb.lines[Len(fb.lines) - n + i]
                     = Line(i, LastRecord.issues[i])
              /\ n = 0 => Len(fb.lines) = 1

\* C25 witness: the checker step of iteration 1 has left the feedback of
\* a failed verdict with two issues, and the run goes on
C25_Witness ==
  /\ pc = "maker"
  /\ state.currentIteration = 1
  /\ ~LastRecord.passed
  /\ LastRecord.issues = <<"i1", "i2">>
  /\ state.feedback.lines[3] = Line(1, "i1")
  /\ state.feedback.lines[4] = Line(2, "i2")

\* C26: a checker step on a state whose current output is null fails with
\* a fatal error before any review call is made (the review call is in
\* flight only for a state that has an output) and produces no state
\* update: no record is appended and shouldStop, success, feedback and
\* finalOutput stay as they were.
C26_NoOutputToCheck ==
  [][/\ (pc = "checker" /\ state.currentOutput = NoFile)
          => /\ pc' = "caught"
             /\ events' = Append(events, onError(state.currentIteration))
             /\ state' = state
             /\ currentState' = currentState
     /\ pc' = "checkerWait" => state.currentOutput # NoFile]_vars

\* C26 witness: the checker node, handed a state of iteration 1 with
\* pending feedback and no current output, has thrown
C26_Witness ==
  /\ pc = "caught"
  /\ state.currentOutput = NoFile
  /\ state.currentIteration = 1
  /\ state.feedback # NullText
  /\ state.iterationHistory = <<>>
  /\ Len(events) = 1 /\ events[1].type = "error"

\* C27: currentIteration starts at 0 and is changed only by the maker
\* step, which increases it by exactly 1; the checker step leaves
\* currentIteration, the current output, the generation task id and the
\* last output signature unchanged.
C27_IterationChangedByMakerOnly ==
  /\ state.currentIteration = 0
  /\ [][/\ pc' = "maker" /\ pc = "open" => state'.currentIteration = 0
        /\ state'.currentIteration # state.currentIteration
             => /\ pc = "makerWait" /\ pc' = "checker"
                /\ state'.currentIteration = state.currentIteration + 1
        /\ pc = "makerWait" /\ pc' = "checker"
             => state'.currentIteration = state.currentIteration + 1
        /\ pc = "checkerWait" /\ pc' \in {"maker", "streamEnd"}
             => /\ state'.currentIteration = state.currentIteration
                /\ state'.currentOutput = state.currentOutput
                /\ state'.manusTaskId = state.manusTaskId
                /\ state'.lastOutputSignature
                     = state.lastOutputSignature]_vars

\* C27 witness: after the checker step of iteration 2 the state still
\* holds what the maker step of iteration 2 left
C27_Witness ==
  /\ pc = "streamEnd"
  /\ Len(state.iterationHistory) = 2
  /\ state.currentIteration = 2
  /\ state.currentOutput = createOutputFile("u2", 2)
  /\ state.manusTaskId = "t1"
  /\ state.lastOutputSignature = "s2"

\* the set of urls a task lists, in task.output and in task.outputs
UrlSet(t) ==
  {t.files[i].url : i \in DOMAIN t.files}
    \cup {t.outputs[i].url : i \in DOMAIN t.outputs}

\* C28: the output signature depends only on the set of urls a task
\* lists: the completed task of a call and a completed task looked up
\* later in the call have equal signatures if they list the same urls, in
\* any order, and different signatures if their url sets differ.
C28_SignatureOfUrlSet ==
  (completedTask.status = "completed" /\ task.status = "completed")
    => ((UrlSet(task) = UrlSet(completedTask))
          <=> (buildOutputSignature(task)
                 = buildOutputSignature(completedTask)))

\* the files of the primary kind a task lists, in either array
ListedPptx(t) ==
  {f \in {t.files[i] : i \in DOMAIN t.files}
          \cup {t.outputs[i] : i \in DOMAIN t.outputs} : f.kind = "pptx"}

\* C29: when the completed task that the primary output is searched in
\* lists files of the primary kind, the file selected is a generated
\* (sandbox) one whenever the task lists one, and otherwise is never a
\* file named like an input attachment of the call.
C29_GeneratedOutputPreferred ==
  [][(gpc = "wait" /\ phase \in {"main", "pptx"}
        /\ (phase' # phase \/ gpc' = "returned")
        /\ pptxOutput' # NoOutput)
       => /\ pptxOutput' \in ListedPptx(task')
          /\ (\E f \in ListedPptx(task') : isGeneratedOutput(f))
               => isGeneratedOutput(pptxOutput')
          /\ ~isGeneratedOutput(pptxOutput')
               => pptxOutput'.name \notin InputFilenames(genRequest)]_vars

\* the export requests for the primary kind the call has issued
PptxExports ==
  {i \in DOMAIN taskRequests : taskRequests[i].prompt = "pptx"}

\* the completed generation task lists no primary output
PrimaryMissing ==
  /\ completedTask.status = "completed"
  /\ findPptxOutput(completedTask, InputFilenames(genRequest)) = NoOutput

\* C30: if the completed task has no primary output the call issues one
\* export request, and only one, for it on that task (none if the task
\* has one) and takes the primary output from the search of the export's
\* completed task; if it is still missing when the call reaches its end
\* the call throws an invalid-response error, and no result is returned
\* without a primary output.
C30_ExportFallback ==
  [][/\ Cardinality(PptxExports') <= 1
     /\ PptxExports' # PptxExports
          => /\ PrimaryMissing /\ phase = "pptx"
             /\ taskRequests'[Len(taskRequests')].taskId = completedTask.id
             /\ completedTask.id # NullId
     /\ (PrimaryMissing' /\ (phase' = "pdf" \/ gpc' = "returned"))
          => Cardinality(PptxExports') = 1
     /\ (gpc = "wait" /\ phase = "pptx" /\ (phase' = "pdf" \/ gpc' # "wait")
           /\ thrown' \in {NoError, InvalidResponse})
          => pptxOutput'
               = findPptxOutput(task', InputFilenames(genRequest))
     /\ (gpc = "wait" /\ gpc' \in {"returned", "thrown"}
           /\ task'.status = "completed" /\ completedTask'.id # NullId)
          => IF pptxOutput' = NoOutput
               THEN gpc' = "thrown" /\ thrown' = InvalidResponse
               ELSE gpc' = "returned"
     /\ gpc' = "returned"
          => /\ pptxOutput' # NoOutput
             /\ genResult'.outputUrl = pptxOutput'.url
             /\ genResult'.outputUrl # 0]_vars

\* C30 witness: the completed task listed no PPTX, one export request
\* was made on it, and the result carries the PPTX of the export's task
C30_Witness ==
  /\ gpc = "returned"
  /\ PrimaryMissing
  /\ Cardinality(PptxExports) = 1
  /\ genResult.outputUrl = 1
  /\ genResult.taskId = completedTask.id

\* the keys of the entries of a sequence of files
KeysOf(files) == {FileKey(files[i]) : i \in DOMAIN files}

\* C31: every verdict the review client returns is normalised: passed is
\* a boolean, false when the parsed value is not one; confidence lies in
\* [0,1] (0..10 tenths), clamped when out of range and 0 when not a
\* number; feedback is a string, the placeholder when the parsed value is
\* not one; issues holds the string elements of the parsed array in their
\* order and is empty when the parsed value is not an array.
C31_VerdictNormalised ==
  rpc = "returned" =>
    /\ verdict.passed \in BOOLEAN
    /\ verdict.passed = (parsed.passed = JBool(TRUE))
    /\ verdict.confidence \in 0..10
    /\ (parsed.confidence.t = "number" /\ parsed.confidence.v \in 0..10)
         => verdict.confidence = parsed.confidence.v
    /\ (parsed.confidence.t = "number" /\ parsed.confidence.v > 10)
         => verdict.confidence = 10
    /\ (parsed.confidence.t # "number" \/ parsed.confidence.v < 0)
         => verdict.confidence = 0
    /\ verdict.feedback
         = (IF parsed.feedback.t = "string" THEN parsed.feedback.v
            ELSE "No feedback provided")
    /\ parsed.issues.t # "array" => verdict.issues = <<>>
    /\ parsed.issues = JArr(<<JStr("i1"), JNum(7), JStr("i2")>>)
         => verdict.issues = <<"i1", "i2">>
    /\ parsed.issues = JArr(<<JStr("i2"), JStr("i1")>>)
         => verdict.issues = <<"i2", "i1">>
    /\ parsed.issues = JArr(<<>>) => verdict.issues = <<>>

\* C31 witness: an answer with a string for passed, a confidence above
\* the range, a number for feedback and a mixed array of issues
C31_Witness ==
  /\ rpc = "returned"
  /\ parsed.passed = JStr("true") /\ ~verdict.passed
  /\ parsed.confidence = JNum(15) /\ verdict.confidence = 10
  /\ parsed.feedback = JNum(1)
  /\ verdict.issues = <<"i1", "i2">>

\* C32: the attachments the checker node sends with the review call hold
\* at most one entry per key (id, else url, else name), and an entry is
\* the first file of [...inputFiles, ...sampleFiles] that has its key.
C32_AttachmentsDeduplicated ==
  rpc \in {"review", "returned", "thrown"} =>
    LET files == reviewFiles.inputFiles \o reviewFiles.sampleFiles
    IN /\ \A i, j \in DOMAIN attachments :
            FileKey(attachments[i]) = FileKey(attachments[j]) => i = j
       /\ \A i \in DOMAIN attachments :
            \E k \in DOMAIN files :
              /\ files[k] = attachments[i]
              /\ \A m \in 1..(k - 1) :
                   FileKey(files[m]) # FileKey(attachments[i])
       /\ \A i, j \in DOMAIN attachments :
            i < j => \E k, m \in DOMAIN files :
                       /\ k < m
                       /\ files[k] = attachments[i]
                       /\ files[m] = attachments[j]

\* C32 witness: two input files and a sample file share the key a (an
\* id, an id, a name); the one attachment is the first of them
C32_Witness ==
  /\ rpc = "review"
  /\ Len(reviewFiles.inputFiles) = 2 /\ Len(reviewFiles.sampleFiles) = 1
  /\ KeysOf(reviewFiles.inputFiles \o reviewFiles.sampleFiles) = {"a"}
  /\ reviewFiles.inputFiles[1] # reviewFiles.inputFiles[2]
  /\ attachments = <<reviewFiles.inputFiles[1]>>

\* C33: for a run the maker/checker loop is executed at most once:
\* requesting the progress stream again (here after the stream was closed
\* and the run has a terminal status) starts no other execution of the
\* workflow.
C33_WorkflowExecutedOnce == executions <= 1

\* C34: whenever the engine continues to another maker call after a
\* checker step, the pending feedback is non-null, so every maker call
\* after the first is a feedback-only call and never carries the full
\* generation prompt.
C34_FeedbackAlwaysPending ==
  /\ (pc = "maker" /\ state.currentIteration >= 1) => ~state.feedback.isNull
  /\ (pc = "makerWait" /\ makerReq.iteration > 1)
       => makerReq.prompt.kind = "feedback"

\* C35: iteration_start{n} is emitted before the generation call of
\* iteration n is issued: while that call is in flight the stream already
\* holds the iteration_start event of its iteration.
C35_IterationStartBeforeMakerCall ==
  pc = "makerWait"
    => \E i \in EventIdx :
         /\ IsType(i, "iteration_start")
         /\ events[i].iteration = makerReq.iteration

\* event j is the last event of type t before event i
LastBefore(j, i, t) ==
  /\ j < i
  /\ IsType(j, t)
  /\ \A k \in EventIdx : (j < k /\ k < i) => ~IsType(k, t)

\* C36: workflow_complete carries success = true only if the last
\* checker_complete event of the run had passed = true and a confidence
\* at or above the threshold of the run; without such a final verdict no
\* success is reported.
C36_SuccessOnlyAfterPassingVerdict ==
  \A i \in EventIdx :
    (IsType(i, "workflow_complete") /\ events[i].success)
      => \E j \in EventIdx :
           /\ LastBefore(j, i, "checker_complete")
           /\ events[j].passed
           /\ events[j].confidence >= state.confidenceThreshold

\* C36 witness: a run of two iterations that ended at its cap reports
\* success after a failed first and a passing second verdict
C36_Witness ==
  /\ pc = "closed"
  /\ Len(state.iterationHistory) = 2
  /\ ~state.iterationHistory[1].passed
  /\ \E i \in EventIdx : IsType(i, "workflow_complete") /\ events[i].success

\* C37: the final artifact reported in workflow_complete, id and url, is
\* the artifact announced by the last maker_complete event of the run.
C37_FinalArtifactIsLastMakerOutput ==
  \A i \in EventIdx :
    IsType(i, "workflow_complete")
      => \E j \in EventIdx :
           /\ LastBefore(j, i, "maker_complete")
           /\ events[i].finalOutputFileId = events[j].outputFileId
           /\ events[i].finalOutputFileUrl = events[j].outputFileUrl

\* C37 witness: a finished run of two iterations whose two outputs differ
C37_Witness ==
  /\ pc = "closed"
  /\ \E i \in EventIdx : IsType(i, "workflow_complete")
  /\ \E j, k \in EventIdx :
       /\ j < k
       /\ IsType(j, "maker_complete")
       /\ IsType(k, "maker_complete")
       /\ events[j].outputFileUrl # events[k].outputFileUrl

\* number of events of type t sent so far
CountType(t) == Cardinality({i \in EventIdx : IsType(i, t)})

\* C38: with maxIterations >= 1, currentIteration never exceeds
\* maxIterations in the graph state or in the callback loop's copy, a maker
\* call is in flight only while currentIteration is below maxIterations,
\* and a run completes at most maxIterations maker steps.
C38_IterationWithinCap ==
  state.maxIterations >= 1 =>
    /\ state.currentIteration <= state.maxIterations
    /\ currentState.currentIteration <= state.maxIterations
    /\ pc = "makerWait" => state.currentIteration < state.maxIterations
    /\ CountType("maker_complete") <= state.maxIterations

\* C38 witness: a run with a cap above one whose failed verdicts took it
\* to the cap, where it ended
C38_Witness ==
  /\ pc = "closed"
  /\ state.maxIterations > 1
  /\ state.currentIteration = state.maxIterations
  /\ CountType("maker_complete") = state.maxIterations
  /\ \E i \in EventIdx : IsType(i, "workflow_complete")

\* the run has ended as completed: workflow_complete was sent, the
\* registry status is completed and the stream is closed
RunCompleted ==
  /\ \E i \in EventIdx : IsType(i, "workflow_complete")
  /\ store.present
  /\ store.status = "completed"
  /\ closed

\* C39: when every generation call and every review call returns, a run
\* whose engine has started eventually sends workflow_complete, and from
\* some point on the registry status is completed and the stream closed.
C39_RunEventuallyCompleted ==
  (executions > 0) ~> []RunCompleted

=============================================================================
